---- MODULE Spec2Model ----
(***************************************************************************)
(* Model of the str-iter crate (src/src/lib.rs): the substring iterator    *)
(* SubstrIterator and the character function iterator FuncIterator over a  *)
(* UTF-8 string.  A string is the sequence of its bytes; a view &s[lo..hi] *)
(* is the pair of its byte offsets.                                        *)
(***************************************************************************)
EXTENDS Integers, Sequences, FiniteSets, TLC

\* ------------------------------------------------------------- bounds
\* Longest source string, in characters, that Init draws.
MaxLen == 4
\* Longest needle, in characters, that substr_iter is called with.
MaxNeedle == 2

\* ------------------------------------------------------------- inputs
\* The characters the strings are built from, as their UTF-8 encodings:
\* 'a' (U+0061), ' ' (U+0020) and the two-byte U+00E9.
Chars == { <<97>>, <<32>>, <<195, 169>> }

RECURSIVE Strs(_)
Strs(n) ==
  IF n = 0 THEN { <<>> }
  ELSE Strs(n - 1) \cup { w \o c : w \in Strs(n - 1), c \in Chars }

\* "1 2 3 a b c", the string of tests::word_count.
WordVector == <<49, 32, 50, 32, 51, 32, 97, 32, 98, 32, 99>>

\* "Hello <U+1F60E> Dennis! <U+1F600>", the string of tests::func_count.
FuncVector ==
  <<72, 101, 108, 108, 111, 32, 240, 159, 152, 142, 32,
    68, 101, 110, 110, 105, 115, 33, 32, 240, 159, 152, 128>>

\* "hello  world", the string of tests::substr_count.
SubstrVector == <<104, 101, 108, 108, 111, 32, 32, 119, 111, 114, 108, 100>>

Buffers == Strs(MaxLen) \cup { WordVector, FuncVector, SubstrVector }

Needles == Strs(MaxNeedle)

\* The character functions func_iter is called with: the closure of
\* word_iter, the closure of tests::func_count, and three more.
Funcs == { "not_alphanumeric", "not_emoticon", "is_space", "is_ascii", "never" }

\* ------------------------------------------------------------- str
\* str::is_char_boundary: offset 0, the length, or a byte that is no
\* UTF-8 continuation byte (0x80..0xBF).
is_char_boundary(s, i) ==
  \/ i = 0
  \/ i = Len(s)
  \/ (i < Len(s) /\ s[i + 1] \notin 128..191)

\* slice_ok of an unchecked slice (get_unchecked), which never panics.
slice_unchecked(s, a, b) == TRUE

\* Whether the slice &s[a..b] is taken without a panic.
slice_ok(s, a, b) ==
  /\ a <= b
  /\ b <= Len(s)
  /\ is_char_boundary(s, a)
  /\ is_char_boundary(s, b)

\* slice with its end one byte short.
slice_short(s, a, b) == SubSeq(s, a + 1, b - 1)

\* The bytes of &s[a..b].
slice(s, a, b) == SubSeq(s, a + 1, b)

\* char::len_utf8 of the character whose first byte is b.
len_utf8(b) ==
  IF b < 128 THEN 1 ELSE IF b < 224 THEN 2 ELSE IF b < 240 THEN 3 ELSE 4

\* s[i..].chars().next(): the scalar value decoded at the boundary i.
char_at(s, i) ==
  LET b == s[i + 1] IN
  CASE len_utf8(b) = 1 -> b
    [] len_utf8(b) = 2 -> (b - 192) * 64 + (s[i + 2] - 128)
    [] len_utf8(b) = 3 ->
         (b - 224) * 4096 + (s[i + 2] - 128) * 64 + (s[i + 3] - 128)
    [] OTHER ->
         (b - 240) * 262144 + (s[i + 2] - 128) * 4096
           + (s[i + 3] - 128) * 64 + (s[i + 4] - 128)

\* char::is_alphanumeric on the scalar values of the inputs: ASCII and
\* Latin-1 by their Unicode classes; the emoticons of FuncVector are
\* symbols.
is_alphanumeric(c) ==
  \/ c \in 48..57
  \/ c \in 65..90
  \/ c \in 97..122
  \/ c \in {170, 178, 179, 181, 185, 186, 188, 189, 190}
  \/ c \in 192..214
  \/ c \in 216..246
  \/ c \in 248..255

\* (self.f)(c) for the character functions of Funcs.
apply(f, c) ==
  CASE f = "not_alphanumeric" -> ~is_alphanumeric(c)
    [] f = "is_alphanumeric" -> is_alphanumeric(c)
    [] f = "not_emoticon" -> c < 128512 \/ c > 128591
    [] f = "is_space" -> c = 32
    [] f = "is_ascii" -> c < 128
    [] OTHER -> FALSE

\* ------------------------------------------------------------- results
\* Option<&str> by offsets, and the panic of a failed slice or subtraction.
None == [tag |-> "none", lo |-> 0, hi |-> 0]
Some(lo, hi) == [tag |-> "some", lo |-> lo, hi |-> hi]
Panic == [tag |-> "panic", lo |-> 0, hi |-> 0]
\* No pull since the iterator was made, reset or switched to emit_all.
NoPull == [tag |-> "nopull", lo |-> 0, hi |-> 0]

\* What a call of next leaves: the cursor self.start and the value returned.
Ret(start, res) == [start |-> start, res |-> res]

\* ------------------------------------------------------------- SubstrIterator
\* Substr::substr_iter: the iterator over s with the given needle.
substr_iter(s, needle) ==
  [kind |-> "substr", s |-> s, needle |-> needle, l |-> Len(s),
   needle_len |-> Len(needle), start |-> 0, emit_all |-> FALSE,
   f |-> "never"]

\* all building the iterator anew: emit_all set and the cursor at 0.
all_rewound(self) == [self EXCEPT !.emit_all = TRUE, !.start = 0]

\* SubstrIterator::all: emit_all set, nothing else touched.
all(self) == [self EXCEPT !.emit_all = TRUE]

\* reset without the assignment of the cursor.
reset_kept(self) == self

\* SubstrIterator::reset.
reset(self) == [self EXCEPT !.start = 0]

\* exhausted with the cursor wrapped to the start of the string.
exhausted_wrapped(self) == Ret(0, None)

\* next, lines 44-46: the cursor is past the end of the string.
exhausted(self) == Ret(self.start, None)

\* next_char stepping by one byte instead of the width of the character.
next_char_byte(self) ==
  IF self.l = 0 \/ self.start = self.l THEN Ret(self.start, None)
  ELSE IF ~slice_ok(self.s, self.start, self.l) THEN Ret(self.start, Panic)
  ELSE LET end == self.start + 1 IN
       IF ~slice_ok(self.s, self.start, end) THEN Ret(self.start, Panic)
       ELSE Ret(end, Some(self.start, end))

\* SubstrIterator::next_char: the view of the one character at the cursor.
next_char(self) ==
  IF self.l = 0 \/ self.start = self.l THEN Ret(self.start, None)
  ELSE IF ~slice_ok(self.s, self.start, self.l) THEN Ret(self.start, Panic)
  ELSE LET end == self.start + len_utf8(self.s[self.start + 1]) IN
       IF ~slice_ok(self.s, self.start, end) THEN Ret(self.start, Panic)
       ELSE Ret(end, Some(self.start, end))

\* empty_source without the move of the cursor past the end.
empty_source_unmoved(self) ==
  IF ~self.emit_all THEN Ret(self.start, None)
  ELSE Ret(self.start, Some(0, self.l))

\* next, lines 52-60: the empty source string.
empty_source(self) ==
  IF ~self.emit_all THEN Ret(self.start, None)
  ELSE Ret(self.l + 1, Some(0, self.l))

\* skip_match with the test of has_match inverted.
skip_match_inverted(self, has_match) == ~self.emit_all /\ has_match

\* next, line 83: a needle found while no value is open is passed over.
skip_match(self, has_match) == ~self.emit_all /\ ~has_match

\* after_loop with the last value followed by self.start += self.l + 1.
after_loop_far(self, has_match, start) ==
  IF ~has_match
  THEN IF ~self.emit_all THEN Ret(start, None)
       ELSE IF self.needle_len > self.l THEN Ret(start, Panic)
       ELSE IF ~slice_ok(self.s, self.l - self.needle_len, self.l)
         THEN Ret(start, Panic)
       ELSE IF slice(self.s, self.l - self.needle_len, self.l) # self.needle
         THEN Ret(start, None)
       ELSE IF ~slice_ok(self.s, start, self.l) THEN Ret(start, Panic)
       ELSE Ret(self.l + 1, Some(start, self.l))
  ELSE IF ~slice_ok(self.s, start, self.l) THEN Ret(start, Panic)
       ELSE Ret(start + self.l + 1, Some(start, self.l))

\* next, lines 96-111: after the loop.  self.l - self.needle_len is a usize
\* subtraction: with the needle longer than the string it panics in a
\* debug build and wraps in a release build, where the slice then starts
\* past the end and panics too.
after_loop(self, has_match, start) ==
  IF ~has_match
  THEN IF ~self.emit_all THEN Ret(start, None)
       ELSE IF self.needle_len > self.l THEN Ret(start, Panic)
       ELSE IF ~slice_ok(self.s, self.l - self.needle_len, self.l)
         THEN Ret(start, Panic)
       ELSE IF slice(self.s, self.l - self.needle_len, self.l) # self.needle
         THEN Ret(start, None)
       ELSE IF ~slice_ok(self.s, start, self.l) THEN Ret(start, Panic)
       ELSE Ret(self.l + 1, Some(start, self.l))
  ELSE IF ~slice_ok(self.s, start, self.l) THEN Ret(start, Panic)
       ELSE Ret(start + self.l, Some(start, self.l))

\* next, lines 62-94: the iteration i of `for i in self.start..self.l`,
\* with the flag has_match and the cursor self.start as they stand.
RECURSIVE substr_loop(_, _, _, _)
substr_loop(self, i, has_match, start) ==
  IF i >= self.l \/ i + self.needle_len > self.l
  THEN after_loop(self, has_match, start)
  ELSE LET end == i + self.needle_len IN
       IF ~slice_ok(self.s, i, end) THEN Ret(start, Panic)
       ELSE IF slice(self.s, i, end) # self.needle
         THEN IF has_match THEN substr_loop(self, i + 1, TRUE, start)
              ELSE substr_loop(self, i + 1, TRUE, i)
       ELSE IF skip_match(self, has_match)
         THEN substr_loop(self, i + 1, has_match, i)
       ELSE IF ~slice_ok(self.s, start, i) THEN Ret(start, Panic)
       ELSE Ret(i + self.needle_len, Some(start, i))

\* <SubstrIterator as Iterator>::next.
substr_next(self) ==
  IF self.start > self.l THEN exhausted(self)
  ELSE IF self.needle_len = 0 THEN next_char(self)
  ELSE IF self.l = 0 THEN empty_source(self)
  ELSE substr_loop(self, self.start, FALSE, self.start)

\* ------------------------------------------------------------- FuncIterator
\* Func::func_iter: the iterator over s with the character function f.
func_iter(s, f) ==
  [kind |-> "func", s |-> s, needle |-> <<>>, l |-> Len(s),
   needle_len |-> 0, start |-> 0, emit_all |-> FALSE, f |-> f]

\* word_iter with the negation of the closure lost.
word_iter_unnegated(s) == func_iter(s, "is_alphanumeric")

\* word_iter: func_iter with the closure |c| !c.is_alphanumeric().
word_iter(s) == func_iter(s, "not_alphanumeric")

\* FuncIterator::reset.
func_reset(self) == [self EXCEPT !.start = 0]

\* func_after_loop with the cursor put back to the start of the string when
\* nothing is left.
func_after_loop_rewound(self, has_match, start) ==
  IF has_match /\ start < self.l
  THEN IF ~slice_ok(self.s, start, self.l) THEN Ret(start, Panic)
       ELSE Ret(start + (self.l - start), Some(start, self.l))
  ELSE Ret(0, None)

\* func_after_loop without the emission of the value still open at the end
\* of the string.
func_after_loop_dropped(self, has_match, start) == Ret(start, None)

\* next, lines 246-253: after the loop.
func_after_loop(self, has_match, start) ==
  IF has_match /\ start < self.l
  THEN IF ~slice_ok(self.s, start, self.l) THEN Ret(start, Panic)
       ELSE Ret(start + (self.l - start), Some(start, self.l))
  ELSE Ret(start, None)

\* next, lines 224-244: the iteration of `while i < self.l` at offset i.
RECURSIVE func_loop(_, _, _, _)
func_loop(self, i, has_match, start) ==
  IF ~(i < self.l) THEN func_after_loop(self, has_match, start)
  ELSE IF ~slice_ok(self.s, i, self.l) THEN Ret(start, Panic)
  ELSE LET c == char_at(self.s, i)
           l == len_utf8(self.s[i + 1])
       IN IF apply(self.f, c)
          THEN IF has_match
               THEN IF ~slice_ok(self.s, start, i) THEN Ret(start, Panic)
                    ELSE Ret(i + l, Some(start, i))
               ELSE func_loop(self, i + l, FALSE, i + l)
          ELSE IF ~has_match THEN func_loop(self, i + l, TRUE, i)
               ELSE func_loop(self, i + l, has_match, start)

\* <FuncIterator as Iterator>::next.
func_next(self) ==
  IF self.start = self.l THEN Ret(self.start, None)
  ELSE func_loop(self, self.start, FALSE, self.start)

\* ------------------------------------------------------------- count
\* What count leaves: "returned" with the number v, "panicked" when a pull
\* of its loop panicked, "running" when the loop was still pulling views
\* after the steps followed; "nocount" while count was not called.
Counted(tag, v, start) == [tag |-> tag, v |-> v, start |-> start]

\* The number of views after which a loop of count is no longer followed.
Steps(self) == 2 * self.l + 2

\* count, lines 116-122 and 258-264: `for _ in self { v += 1 }`, with v
\* views counted so far.
RECURSIVE count_loop(_, _, _)
count_loop(self, v, fuel) ==
  LET r == IF self.kind = "substr" THEN substr_next(self) ELSE func_next(self)
  IN CASE r.res.tag = "none" -> Counted("returned", v, r.start)
       [] r.res.tag = "panic" -> Counted("panicked", v, r.start)
       [] OTHER ->
            IF fuel = 0 THEN Counted("running", v, r.start)
            ELSE count_loop([self EXCEPT !.start = r.start], v + 1, fuel - 1)

\* <SubstrIterator as Iterator>::count.
substr_count(self) == count_loop(self, 0, Steps(self))

\* <FuncIterator as Iterator>::count.
func_count(self) == count_loop(self, 0, Steps(self))

\* ------------------------------------------------------------- state
VARIABLES
  s,        \* the source string
  iter,     \* the iterator made over s, or NoIter
  ctor,     \* the function that made iter
  op,       \* the operation that led to this state
  last,     \* what the latest pull returned; NoPull when there was none
            \* since iter was made, reset or had emit_all switched on
  prev,     \* the tag of what the pull before the latest returned, "nopull"
            \* when there was none since then
  out,      \* the views pulled since iter was made or reset, in order
  pulled,   \* a pull happened since iter was made or reset
  mixed,    \* emit_all was switched on after a pull, since iter was made
            \* or reset
  resetSeen, \* "never" while iter was not reset; else whether the latest
             \* reset found the cursor "moved" or still "atStart"
  counted   \* what count left, which takes the iterator by value

vars ==
  <<s, iter, ctor, op, last, prev, out, pulled, mixed, resetSeen, counted>>

NoIter ==
  [kind |-> "none", s |-> <<>>, needle |-> <<>>, l |-> 0, needle_len |-> 0,
   start |-> 0, emit_all |-> FALSE, f |-> "never"]

Init ==
  /\ s \in Buffers
  /\ iter = NoIter
  /\ ctor = "none"
  /\ op = "init"
  /\ last = NoPull
  /\ prev = "nopull"
  /\ out = <<>>
  /\ pulled = FALSE
  /\ mixed = FALSE
  /\ resetSeen = "never"
  /\ counted = Counted("nocount", 0, 0)

\* The iterator is usable: it exists, no pull of it panicked and count has
\* not consumed it.
Live(kind) ==
  /\ iter.kind = kind
  /\ last.tag # "panic"
  /\ counted.tag = "nocount"

Made(it, by) ==
  /\ iter.kind = "none"
  /\ iter' = it
  /\ ctor' = by
  /\ op' = by
  /\ UNCHANGED <<s, last, prev, out, pulled, mixed, resetSeen, counted>>

SubstrIter == \E needle \in Needles : Made(substr_iter(s, needle), "substr_iter")

FuncIter == \E f \in Funcs : Made(func_iter(s, f), "func_iter")

WordIter == Made(word_iter(s), "word_iter")

\* A pull that returned r.
Pulled(r) ==
  /\ iter' = [iter EXCEPT !.start = r.start]
  /\ last' = r.res
  /\ prev' = last.tag
  /\ out' = IF r.res.tag = "some"
            THEN Append(out, [lo |-> r.res.lo, hi |-> r.res.hi])
            ELSE out
  /\ pulled' = TRUE
  /\ op' = "next"
  /\ UNCHANGED <<s, ctor, mixed, resetSeen, counted>>

SubstrNext == Live("substr") /\ Pulled(substr_next(iter))

FuncNext == Live("func") /\ Pulled(func_next(iter))

All ==
  /\ Live("substr")
  /\ iter' = all(iter)
  /\ mixed' = (mixed \/ (pulled /\ ~iter.emit_all))
  /\ last' = IF iter.emit_all THEN last ELSE NoPull
  /\ prev' = IF iter.emit_all THEN prev ELSE "nopull"
  /\ op' = "all"
  /\ UNCHANGED <<s, ctor, out, pulled, resetSeen, counted>>

Rewound(it) ==
  /\ iter' = it
  /\ last' = NoPull
  /\ prev' = "nopull"
  /\ out' = <<>>
  /\ pulled' = FALSE
  /\ mixed' = FALSE
  /\ resetSeen' = IF iter.start > 0 THEN "moved" ELSE "atStart"
  /\ op' = "reset"
  /\ UNCHANGED <<s, ctor, counted>>

SubstrReset == Live("substr") /\ Rewound(reset(iter))

FuncReset == Live("func") /\ Rewound(func_reset(iter))

\* A call of count that left c.
CountedAs(c) ==
  /\ counted' = c
  /\ iter' = [iter EXCEPT !.start = c.start]
  /\ op' = "count"
  /\ UNCHANGED <<s, ctor, last, prev, out, pulled, mixed, resetSeen>>

SubstrCount == Live("substr") /\ CountedAs(substr_count(iter))

FuncCount == Live("func") /\ CountedAs(func_count(iter))

Next ==
  \/ SubstrIter
  \/ FuncIter
  \/ WordIter
  \/ All
  \/ SubstrNext
  \/ SubstrReset
  \/ FuncNext
  \/ FuncReset
  \/ SubstrCount
  \/ FuncCount

Spec == Init /\ [][Next]_vars

TypeOK ==
  /\ s \in Buffers
  /\ iter.kind \in {"none", "substr", "func"}
  /\ last.tag \in {"nopull", "none", "some", "panic"}
  /\ prev \in {"nopull", "none", "some"}
  /\ resetSeen \in {"never", "atStart", "moved"}
  /\ counted.tag \in {"nocount", "returned", "panicked", "running"}

\* ------------------------------------------------------------- reference
\* The views of out as a set, and out as strictly increasing and disjoint.
Views == { out[k] : k \in 1..Len(out) }

\* The conventional split of s at the leftmost, non-overlapping occurrences
\* of needle, scanning from i with the open segment starting at seg.
RECURSIVE SplitFrom(_, _, _, _)
SplitFrom(str, needle, seg, i) ==
  IF i + Len(needle) > Len(str) THEN << [lo |-> seg, hi |-> Len(str)] >>
  ELSE IF SubSeq(str, i + 1, i + Len(needle)) = needle
    THEN << [lo |-> seg, hi |-> i] >>
           \o SplitFrom(str, needle, i + Len(needle), i + Len(needle))
  ELSE SplitFrom(str, needle, seg, i + 1)

Split(str, needle) == SplitFrom(str, needle, 0, 0)

NonEmptyView(v) == v.lo < v.hi

\* The offsets at which a character of str starts.
CharStarts(str) == { i \in 0..(Len(str) - 1) : str[i + 1] \notin 128..191 }

\* [lo, hi) is a maximal run of characters of str that are no separators,
\* Sep telling of a scalar value whether it is one.
IsRun(str, Sep(_), lo, hi) ==
  /\ lo < hi
  /\ lo \in CharStarts(str)
  /\ hi = Len(str) \/ hi \in CharStarts(str)
  /\ \A i \in CharStarts(str) : (lo <= i /\ i < hi) => ~Sep(char_at(str, i))
  /\ lo = 0 \/ \E j \in CharStarts(str) :
                  /\ j < lo
                  /\ Sep(char_at(str, j))
                  /\ \A m \in CharStarts(str) : ~(j < m /\ m < lo)
  /\ hi = Len(str) \/ Sep(char_at(str, hi))

Runs(str, Sep(_)) ==
  { v \in [lo : 0..Len(str), hi : 0..Len(str)] : IsRun(str, Sep, v.lo, v.hi) }

\* out lists exactly the views of the set R, from left to right.
OutLists(R) ==
  /\ Views = R
  /\ Len(out) = Cardinality(R)
  /\ \A k \in 1..(Len(out) - 1) : out[k].hi <= out[k + 1].lo

\* A first run of a made iterator came to its end: no reset, and emit_all
\* as it was at the first pull.
FirstRunDone(kind) ==
  /\ iter.kind = kind
  /\ resetSeen = "never"
  /\ ~mixed
  /\ last.tag = "none"

\* ------------------------------------------------------------- claims
\* C1: with a non-empty needle and all() called before the first pull, the
\* views pulled until None are the conventional split of the string at the
\* leftmost non-overlapping occurrences of the needle, empty segments and a
\* last segment shorter than the needle included.
C1_AllSplit ==
  (FirstRunDone("substr") /\ iter.needle_len > 0 /\ iter.emit_all)
    => out = Split(s, iter.needle)

\* C2: with a non-empty needle and emit_all off, the views pulled until
\* None are the non-empty segments, in order, of that split.
C2_DefaultSplit ==
  (FirstRunDone("substr") /\ iter.needle_len > 0 /\ ~iter.emit_all)
    => out = SelectSeq(Split(s, iter.needle), NonEmptyView)

\* C3: a pull of either iterator returns a view or None and never panics,
\* whatever the string, the needle, the mode and the cursor.
C3_PullTotal == last.tag # "panic"

\* C4: the views pulled from a fresh FuncIterator until None are exactly
\* the maximal runs of non-separator characters, from left to right; no
\* view is empty, and their number is what count() returns (2 for the
\* string and function of tests::func_count).
C4_FuncRuns ==
  /\ iter.kind = "func" => \A k \in 1..Len(out) : NonEmptyView(out[k])
  /\ FirstRunDone("func") =>
       /\ OutLists(Runs(s, LAMBDA c : apply(iter.f, c)))
       /\ (s = FuncVector /\ iter.f = "not_emoticon") => Len(out) = 2

\* C4's case: a finished run with a leading separator and several
\* separators between two views.
C4_Witness ==
  /\ FirstRunDone("func")
  /\ Len(out) = 2
  /\ out[1].lo > 0
  /\ out[2].lo > out[1].hi + 1

\* The run of a freshly made iterator it: the views pulled until the first
\* result that is no view, and the tag of that result ("more" when fuel
\* pulls all returned views).
RECURSIVE Drain(_, _)
Drain(it, fuel) ==
  LET r == IF it.kind = "substr" THEN substr_next(it) ELSE func_next(it) IN
  IF r.res.tag # "some" THEN [views |-> <<>>, end |-> r.res.tag]
  ELSE IF fuel = 0 THEN [views |-> <<>>, end |-> "more"]
  ELSE LET rest == Drain([it EXCEPT !.start = r.start], fuel - 1) IN
       [views |-> << [lo |-> r.res.lo, hi |-> r.res.hi] >> \o rest.views,
        end |-> rest.end]

\* The iterator as newly made over the same string with the same needle or
\* function and the same emit_all.
Fresh ==
  IF iter.kind = "func" THEN func_iter(s, iter.f)
  ELSE IF iter.emit_all THEN all(substr_iter(s, iter.needle))
  ELSE substr_iter(s, iter.needle)

FreshRun == Drain(Fresh, Len(s) + 2)

\* p is a prefix of q.
IsPrefix(p, q) == Len(p) <= Len(q) /\ SubSeq(q, 1, Len(p)) = p

\* The end of the character of str that starts at lo.
CharEnd(str, lo) ==
  CHOOSE e \in (lo + 1)..Len(str) :
    /\ e = Len(str) \/ e \in CharStarts(str)
    /\ \A m \in CharStarts(str) : ~(lo < m /\ m < e)

\* C5: once a pull returned None, the next pull returns None too, for both
\* iterators, as long as no reset and no switch of emit_all comes between.
C5_ExhaustedStays == (prev = "none" /\ last.tag # "nopull") => last.tag = "none"

\* C5's case: two pulls in a row returned None after views were pulled.
C5_Witness ==
  /\ iter.kind = "substr"
  /\ iter.needle_len > 0
  /\ prev = "none"
  /\ last.tag = "none"
  /\ Len(out) >= 2

\* C6: after a reset, whatever was pulled before it, the views pulled are
\* the run of a freshly made iterator with the same string, needle or
\* function and emit_all: a prefix of it while pulling, all of it at the
\* end, which is the same end.
C6_ResetAsFresh ==
  (resetSeen # "never" /\ ~mixed) =>
     /\ IsPrefix(out, FreshRun.views)
     /\ last.tag \in {"none", "panic"} =>
          (out = FreshRun.views /\ last.tag = FreshRun.end)

\* C6's case: a reset that found the cursor moved, and the run after it
\* pulled to its end.
C6_Witness ==
  /\ resetSeen = "moved"
  /\ ~mixed
  /\ last.tag = "none"
  /\ Len(out) >= 2

\* C7: with emit_all off and a non-empty needle no view pulled is empty, in
\* any state; "hello  world" split at " " gives "hello" and "world".
C7_DefaultNoEmpty ==
  (iter.kind = "substr" /\ iter.needle_len > 0 /\ ~iter.emit_all) =>
     /\ \A k \in 1..Len(out) : NonEmptyView(out[k])
     /\ (s = SubstrVector /\ iter.needle = <<32>> /\ last.tag = "none") =>
          out = << [lo |-> 0, hi |-> 5], [lo |-> 7, hi |-> 12] >>

\* C7's case: the run over "hello  world" with the needle " " at its end.
C7_Witness ==
  /\ iter.kind = "substr"
  /\ ~iter.emit_all
  /\ s = SubstrVector
  /\ iter.needle = <<32>>
  /\ last.tag = "none"
  /\ Len(out) = 2

\* C8: with the empty needle the views pulled are the characters of the
\* string one by one, each its whole encoding, whether emit_all is on or
\* off: the k-th view starts where the one before ended and ends where its
\* character ends, no pull panics, and None comes when all characters were
\* pulled (none for the empty string, two for U+00E9 followed by 'a').
C8_EmptyNeedleChars ==
  (iter.kind = "substr" /\ iter.needle_len = 0) =>
     /\ last.tag # "panic"
     /\ \A k \in 1..Len(out) :
          /\ out[k].lo = IF k = 1 THEN 0 ELSE out[k - 1].hi
          /\ out[k].lo < Len(s)
          /\ out[k].hi = CharEnd(s, out[k].lo)
     /\ last.tag = "none" => Len(out) = Cardinality(CharStarts(s))
     /\ (last.tag = "none" /\ s = <<195, 169, 97>>) =>
          out = << [lo |-> 0, hi |-> 2], [lo |-> 2, hi |-> 3] >>

\* C8's case: U+00E9 followed by 'a' pulled to the end with emit_all on.
C8_Witness ==
  /\ iter.kind = "substr"
  /\ iter.needle_len = 0
  /\ iter.emit_all
  /\ s = <<195, 169, 97>>
  /\ last.tag = "none"
  /\ Len(out) = 2

\* C9: over the empty string with a non-empty needle, with emit_all on
\* from the first pull the first pull returns the empty view and every
\* later one None; with emit_all off every pull returns None.
C9_EmptySource ==
  (iter.kind = "substr" /\ iter.l = 0 /\ iter.needle_len > 0
     /\ ~mixed /\ last.tag # "nopull") =>
     IF iter.emit_all
     THEN /\ out = << [lo |-> 0, hi |-> 0] >>
          /\ last = (IF prev = "nopull" THEN Some(0, 0) ELSE None)
     ELSE out = <<>> /\ last = None

\* C9's case: the empty string with emit_all on, pulled twice.
C9_Witness ==
  /\ iter.kind = "substr"
  /\ iter.l = 0
  /\ iter.needle_len > 0
  /\ iter.emit_all
  /\ ~mixed
  /\ prev = "some"
  /\ last = None

\* C10: the views pulled from word_iter until None are the maximal runs of
\* alphanumeric characters, which is the run of func_iter with the function
\* "not alphanumeric"; "1 2 3 a b c" gives its six characters.
C10_WordRuns ==
  (ctor = "word_iter" /\ FirstRunDone("func")) =>
     /\ OutLists(Runs(s, LAMBDA c : ~is_alphanumeric(c)))
     /\ out = Drain(func_iter(s, "not_alphanumeric"), Len(s) + 2).views
     /\ s = WordVector =>
          out = [k \in 1..6 |-> [lo |-> 2 * (k - 1), hi |-> 2 * k - 1]]

\* C10's case: word_iter over "1 2 3 a b c" pulled to its end.
C10_Witness ==
  /\ ctor = "word_iter"
  /\ FirstRunDone("func")
  /\ s = WordVector
  /\ Len(out) = 6

\* C11: every view pulled, from either iterator, is a range [lo, hi) of the
\* string with 0 <= lo <= hi <= length whose two ends are character
\* boundaries, also when the string holds multi-byte characters.
C11_ViewsOnBoundaries ==
  \A k \in 1..Len(out) :
    /\ 0 <= out[k].lo
    /\ out[k].lo <= out[k].hi
    /\ out[k].hi <= Len(s)
    /\ out[k].lo \in CharStarts(s) \cup {Len(s)}
    /\ out[k].hi \in CharStarts(s) \cup {Len(s)}

\* C11's case: the substring iterator with a non-empty needle pulled a view
\* that holds a multi-byte character.
C11_Witness ==
  /\ iter.kind = "substr"
  /\ iter.needle_len > 0
  /\ \E k \in 1..Len(out) :
       NonEmptyView(out[k]) /\ s[out[k].lo + 1] >= 128

\* C12 as claimed: in every state the cursor is at most length + 1.
C12_CursorBound == 0 <= iter.start /\ iter.start <= iter.l + 1

\* The larger of two numbers.
Max(a, b) == IF a >= b THEN a ELSE b

\* C12, amended: the cursor of the substring iterator is at most the larger
\* of length + 1 and 2 * length - 1 (self.start += self.l after the last
\* value); the cursor of the function iterator is at most the length.
C12_CursorBoundAmended ==
  /\ 0 <= iter.start
  /\ iter.start <= Max(iter.l + 1, 2 * iter.l - 1)
  /\ iter.kind = "func" => iter.start <= iter.l

\* C12's case: the last value was pulled and left the cursor beyond
\* length + 1.
C12_Witness ==
  /\ iter.kind = "substr"
  /\ last.tag = "some"
  /\ iter.start > iter.l + 1

\* C13: no pull, whatever it returns, and no all() lowers the cursor; only
\* reset does, and it sets the cursor to 0.
C13_CursorMonotone ==
  [][ /\ op' \in {"next", "all"} => iter'.start >= iter.start
      /\ iter'.start < iter.start => (op' = "reset" /\ iter'.start = 0)
      /\ op' = "reset" => iter'.start = 0 ]_vars

\* C13's case: a pull that returned None moved the cursor of the substring
\* iterator forward, over needles it passed.
C13_Witness ==
  /\ iter.kind = "substr"
  /\ iter.needle_len > 0
  /\ op = "next"
  /\ last.tag = "none"
  /\ out = <<>>
  /\ iter.start > 0

\* C14: over the whole run of a fresh FuncIterator every character of the
\* string lies in exactly one view or in no view at all; it lies in a view
\* exactly if it is no separator, and the views come from left to right on
\* character boundaries, so the views and the separator spans between them
\* make up the string.
C14_FuncCoverage ==
  FirstRunDone("func") =>
    /\ \A i \in CharStarts(s) :
         LET holding == { k \in 1..Len(out) : out[k].lo <= i /\ i < out[k].hi }
         IN /\ Cardinality(holding) <= 1
            /\ (holding # {}) <=> ~apply(iter.f, char_at(s, i))
    /\ \A k \in 1..Len(out) :
         /\ out[k].lo \in CharStarts(s)
         /\ out[k].hi \in CharStarts(s) \cup {Len(s)}
         /\ k > 1 => out[k - 1].hi < out[k].lo

\* C14's case: a run with a separator before its first view and several
\* after its last.
C14_Witness ==
  /\ FirstRunDone("func")
  /\ Len(out) >= 1
  /\ out[1].lo > 0
  /\ out[Len(out)].hi + 1 < Len(s)

\* C15: every pull that returns a view moves the cursor forward, so the
\* views end after finitely many; count() returns, and what it returns is
\* the number of views that pulling yields up to the first None.
C15_FiniteCount ==
  /\ [][(op' = "next" /\ last'.tag = "some") => iter'.start > iter.start]_vars
  /\ [](op = "count" => counted.tag = "returned")
  /\ []((op = "count" /\ ~mixed) =>
          (FreshRun.end = "none"
             /\ counted.v + Len(out) = Len(FreshRun.views)))
  /\ []((last.tag = "none" /\ ~mixed) => out = FreshRun.views)

\* C16: reset changes the cursor, to 0, and nothing else of the iterator;
\* all() changes emit_all, to true, and nothing else, the cursor included;
\* no pull, reset or count changes emit_all, so once true it stays true.
C16_Frame ==
  [][ /\ op' = "reset" => iter' = [iter EXCEPT !.start = 0]
      /\ op' = "all" => (iter' = [iter EXCEPT !.emit_all = TRUE] /\ out' = out)
      /\ op' \in {"next", "count"} => iter' = [iter EXCEPT !.start = iter'.start]
      /\ iter.emit_all => iter'.emit_all ]_vars

\* C16's case: all() was called after pulls had moved the cursor, and the
\* iterator then pulled from where it stood.
C16_Witness ==
  /\ mixed
  /\ iter.emit_all
  /\ iter.needle_len > 0
  /\ op = "next"
  /\ Len(out) >= 2

\* needle occurs in str.
OccursIn(needle, str) ==
  \E i \in 0..(Len(str) - Len(needle)) :
    SubSeq(str, i + 1, i + Len(needle)) = needle

\* The empty view at the end of the string.
TrailingEmpty == [lo |-> Len(s), hi |-> Len(s)]

\* A first run of the substring iterator with a non-empty needle over a
\* non-empty string came to None or to a panic, emit_all being as given
\* from the first pull on.
SubstrRunOver(emit_all) ==
  /\ iter.kind = "substr"
  /\ iter.l > 0
  /\ iter.needle_len > 0
  /\ iter.emit_all = emit_all
  /\ resetSeen = "never"
  /\ ~mixed
  /\ last.tag \in {"none", "panic"}

\* C17: in all-mode over a non-empty string with a non-empty needle, when
\* the last non-overlapping occurrence of the needle ends at the end of the
\* string the run ends with the empty view there, emitted once, and then
\* None; otherwise no empty view at the end of the string is emitted.
C17_TrailingMatch ==
  SubstrRunOver(TRUE) =>
    LET sp == Split(s, iter.needle) IN
    IF sp[Len(sp)] = TrailingEmpty
    THEN /\ last.tag = "none"
         /\ Len(out) >= 1
         /\ out[Len(out)] = TrailingEmpty
         /\ Cardinality({ k \in 1..Len(out) : out[k] = TrailingEmpty }) = 1
    ELSE \A k \in 1..Len(out) : out[k] # TrailingEmpty

\* C18: a non-empty needle that does not occur in a non-empty string gives
\* one view, the whole string, and then None, in both modes.
C18_NeedleAbsent ==
  \A mode \in BOOLEAN :
    (SubstrRunOver(mode) /\ ~OccursIn(iter.needle, s)) =>
       (last.tag = "none" /\ out = << [lo |-> 0, hi |-> Len(s)] >>)

\* C19: with a non-empty needle no view pulled, in either mode and in any
\* state, holds an occurrence of the needle.
C19_NoNeedleInView ==
  (iter.kind = "substr" /\ iter.needle_len > 0) =>
     \A k \in 1..Len(out) :
       ~OccursIn(iter.needle, SubSeq(s, out[k].lo + 1, out[k].hi))

\* C19's case: a string that holds the needle was split into two views or
\* more that are not empty.
C19_Witness ==
  /\ iter.kind = "substr"
  /\ iter.needle_len > 0
  /\ OccursIn(iter.needle, s)
  /\ last.tag = "none"
  /\ Len(out) >= 2
  /\ \A k \in 1..Len(out) : NonEmptyView(out[k])

====
